---- MODULE Spec2Model ----
(***************************************************************************)
(* Model of the japanhouse scraping pipeline: the orchestrator             *)
(* run_scrapers_and_upload (scrape_to_supabase.py), the store gateway      *)
(* SupabaseConnector.save_listings (db_connector.py) and the normalizer    *)
(* BaseScraper.clean_data (base_scraper.py).                               *)
(*                                                                         *)
(* Python values are encoded uniformly as records [kind, val]:             *)
(*   kind = "str"  : val is the string as a sequence of tokens             *)
(*   kind = "int"  : val is the decimal digits, one token per digit        *)
(*   kind = "list" : val is the sequence of the (string) items             *)
(*   kind = "null" : None, val = << >>                                     *)
(* A Python dict is a function from its keys (strings) to such values, so  *)
(* "k in d" is k \in DOMAIN d.                                             *)
(***************************************************************************)
EXTENDS Integers, Sequences, FiniteSets, TLC

VARIABLES
    args,               \* the parsed command line (argparse namespace)
    db_client,          \* db.client is set (TRUE) or None (FALSE)
    store,              \* rows of the table when the run starts
    pc,                 \* position of run_scrapers_and_upload / save_listings
    existing_listings,  \* result of get_existing_listing_ids, or {} (NoIndex)
    index_fetched,      \* number of select() queries issued for the index
    site_idx,           \* index into scraper_names of the site being run
    processed_results,  \* local processed_results of the current site
    new_listings,       \* local new_listings of the current site
    update_listings,    \* local update_listings of the current site
    ci,                 \* loop position in the classification and the update loop
    total_uploaded,     \* summary counter
    total_updated,      \* summary counter
    total_skipped,      \* summary counter
    save_input,         \* listings argument of the current save_listings call
    formatted_listings, \* save_listings: rows after projection and padding
    save_i,             \* save_listings: loop variable i of the batch loop
    sent,               \* chunks handed to upsert() in the current call
    save_result,        \* return value of the latest save_listings call
    committed,          \* number of rows the store committed during the run
    update_sent,        \* rows handed to update() for the current site
    caller,             \* who called save_listings
    scraped,            \* what scraper.scrape() returned for the current site
    sites_run,          \* names whose scrape() was called, in call order
    failed_sites,       \* positions in scraper_names of the sites that failed
    docs,               \* the documents the current site serves, in page order
    page_count,         \* local page_count of scrape()
    next_page_url,      \* local next_page_url of scrape(): a page number, 0 for None
    page_doc,           \* document the browser page shows (akiyamart)
    self_results,       \* self.results of the scraper
    fetched,            \* page numbers handed to get_html / extracted, in order
    failed_at,          \* page number whose step raised, 0 when none did
    saved,              \* result lists written by run_scrapers, one per file
    open_browsers,      \* browsers launched and not closed by browser.close()
    output_dir,         \* the directory scrapers/data exists
    call,               \* a function call under study: its name and arguments
    ret                 \* what the call returned

vars == << args, db_client, store, pc, existing_listings, index_fetched,
           site_idx, processed_results, new_listings, update_listings, ci,
           total_uploaded, total_updated, total_skipped,
           save_input, formatted_listings, save_i, sent, save_result,
           committed, update_sent, caller, scraped, sites_run,
           failed_sites, docs, page_count, next_page_url, page_doc, self_results, fetched,
           failed_at, saved, open_browsers, output_dir, call, ret >>

\* the state of run_scrapers_and_upload and save_listings
runvars == << db_client, store, existing_listings, index_fetched,
              processed_results, new_listings, update_listings, ci,
              total_uploaded, total_updated, total_skipped,
              save_input, formatted_listings, save_i, sent, save_result,
              committed, update_sent, caller, scraped >>

\* the state of one scraper's scrape() and of run_scrapers
pagevars == << docs, page_count, next_page_url, page_doc, self_results, fetched,
               failed_at, saved, open_browsers, output_dir >>

\* the state of a single function call
callvars == << call, ret >>

(***************************************************************************)
(* Python values                                                           *)
(***************************************************************************)
Str(s) == [kind |-> "str", val |-> << s >>]

Chars(cs) == [kind |-> "str", val |-> cs]

Num(ds) == [kind |-> "int", val |-> ds]

List(items) == [kind |-> "list", val |-> items]

None == [kind |-> "null", val |-> << >>]

\* Python truthiness: None, "", 0 and [] are falsy.
Truthy(v) ==
    CASE v.kind = "null" -> FALSE
      [] v.kind = "str"  -> v.val # << >> /\ v.val # << "" >>
      [] v.kind = "int"  -> v.val # << "0" >>
      [] OTHER           -> v.val # << >>

\* d.get(k): the value, or None when the key is absent.
Get(d, k) == IF k \in DOMAIN d THEN d[k] ELSE None

\* d[k] = v
Put(d, k, v) == [x \in (DOMAIN d) \cup {k} |-> IF x = k THEN v ELSE d[x]]

EmptyDict == [x \in {} |-> None]

\* json.dumps of a list: a string, never the list itself.
JsonDumps(v) == [kind |-> "str", val |-> << "[" >> \o v.val \o << "]" >>]

\* datetime.now().isoformat()
NowIso == Str("now")

(***************************************************************************)
(* Field normalizer: BaseScraper.clean_data and _extract_numeric_price     *)
(***************************************************************************)
Digits == {"0", "1", "2", "3", "4", "5", "6", "7", "8", "9"}

IsNumericChar(c) == c \in Digits \/ c = "."

RECURSIVE StripLeadingZeros(_)
StripLeadingZeros(ds) ==
    IF Len(ds) > 1 /\ Head(ds) = "0" THEN StripLeadingZeros(Tail(ds)) ELSE ds

RECURSIVE IntegerPart(_)
\* the digits before the first decimal point
IntegerPart(cs) ==
    IF cs = << >> \/ Head(cs) = "." THEN << >>
    ELSE << Head(cs) >> \o IntegerPart(Tail(cs))

\* _extract_numeric_price on a string: re.sub(r'[^\d.]', '', s), then
\* int(float(numeric_str)); None when nothing is left or float() rejects it.
ExtractNumericPrice(price_str) ==
    LET numeric_str == SelectSeq(price_str.val, IsNumericChar)
        dots == Len(SelectSeq(numeric_str, LAMBDA c : c = "."))
        digs == Len(SelectSeq(numeric_str, LAMBDA c : c \in Digits))
        ip   == IntegerPart(numeric_str)
    IN  IF numeric_str = << >> THEN None
        ELSE IF dots > 1 \/ digs = 0 THEN None
        ELSE Num(StripLeadingZeros(IF ip = << >> THEN << "0" >> ELSE ip))

standard_fields == {"title", "description", "address", "size", "rooms",
                    "bathrooms", "location", "coordinates", "images"}

RECURSIVE AddRawFields(_, _, _)
\* the last loop of clean_data, over data.items() in insertion order
AddRawFields(keys, data, cleaned) ==
    IF keys = << >> THEN cleaned
    ELSE LET key == Head(keys)
         IN  IF key \notin DOMAIN cleaned /\ key \notin {"url", "price"}
             THEN AddRawFields(Tail(keys), data,
                               Put(cleaned, "raw_" \o key, data[key]))
             ELSE AddRawFields(Tail(keys), data, cleaned)

\* clean_data(data) of the scraper called name; keys is the insertion order
\* of data's keys.
CleanData(keys, data, name) ==
    LET c0 == [k \in {"source", "source_url", "scraped_at"} |->
                  CASE k = "source"     -> Str(name)
                    [] k = "source_url" ->
                           IF "url" \in DOMAIN data THEN data["url"] ELSE Str("")
                    [] OTHER            -> NowIso]
        c1 == IF "price" \notin DOMAIN data THEN c0
              ELSE IF data["price"].kind = "str"
                   THEN Put(c0, "price", ExtractNumericPrice(data["price"]))
                   ELSE Put(Put(c0, "price", None), "price_raw", data["price"])
        c2 == [k \in (DOMAIN c1) \cup ((DOMAIN data) \cap standard_fields) |->
                  IF k \in DOMAIN c1 THEN c1[k] ELSE data[k]]
    IN  AddRawFields(keys, data, c2)

(***************************************************************************)
(* Image resolver: process_images                                          *)
(***************************************************************************)
\* The image URLs of the model.  For each: whether its lower-cased text
\* contains one of the skip patterns, whether it contains both 'smallimg'
\* and 'file=', and parse_qs(urlparse(u).query).get('file', []).
UrlPlain   == "https://img.example/a.jpg"
UrlPlainB  == "https://img.example/b.jpg"
UrlLoading == "https://img.example/utility/loading.gif"
UrlSmall   == "https://img.example/smallimg/image.php?file=https://img.example/a.jpg&w=100"
UrlSmallNoValue == "https://img.example/smallimg/image.php?file="
UrlBlank   == "https://img.example/blank.png"
UrlLoadingJpg == "https://img.example/loading.jpg"
\* a smallimg URL whose file value is percent-encoded; %69 is the letter i
UrlSmallEncoded == "https://img.example/smallimg/image.php?file=https%3A%2F%2Fimg.example%2Fload%69ng.jpg"
UrlRelative == "/img/c.jpg"

ImageUrls == {UrlPlain, UrlPlainB, UrlLoading, UrlSmall, UrlSmallNoValue,
              UrlBlank, UrlSmallEncoded, UrlRelative, ""}

HasSkipPattern(u) == u \in {UrlLoading, UrlBlank, UrlLoadingJpg}

IsSmallimgWithFile(u) == u \in {UrlSmall, UrlSmallNoValue, UrlSmallEncoded}

\* parse_qs decodes the percent escapes of the value
QueryFile(u) ==
    CASE u = UrlSmall        -> << UrlPlain >>
      [] u = UrlSmallEncoded -> << UrlLoadingJpg >>
      [] OTHER               -> << >>

RECURSIVE KeepUnique(_, _)
\* first loop of process_images: drop skip patterns, empties and repeats
KeepUnique(urls, processed_images) ==
    IF urls = << >> THEN processed_images
    ELSE LET img_url == Head(urls)
             seen == \E i \in 1..Len(processed_images) :
                        processed_images[i] = img_url
         IN  IF HasSkipPattern(img_url) \/ img_url = "" \/ seen
             THEN KeepUnique(Tail(urls), processed_images)
             ELSE KeepUnique(Tail(urls), Append(processed_images, img_url))

\* second loop of process_images
HighRes(img_url) ==
    IF IsSmallimgWithFile(img_url) /\ QueryFile(img_url) # << >>
    THEN QueryFile(img_url)[1]
    ELSE img_url

process_images(listing) ==
    IF "images" \notin DOMAIN listing \/ ~Truthy(listing["images"])
    THEN listing
    ELSE LET processed_images == KeepUnique(listing["images"].val, << >>)
             high_res_images == [i \in 1..Len(processed_images) |->
                                    HighRes(processed_images[i])]
         IN  Put(listing, "images", List(high_res_images))

(***************************************************************************)
(* Identity index: get_existing_listing_ids                                *)
(***************************************************************************)
\* f"{source}:{source_id}"
SourceKey(source, source_id) == source.val \o << ":" >> \o source_id.val

EmptyIndex ==
    [source_id_dict |-> {}, url_dict |-> {}, id_by_source_id |-> EmptyDict]

RECURSIVE IndexRows(_, _)
\* the loop over response.data, in row order (a later row overwrites)
IndexRows(rows, acc) ==
    IF rows = << >> THEN acc
    ELSE LET listing == Head(rows)
             a1 == IF Truthy(Get(listing, "source_id"))
                   THEN LET source_key ==
                                SourceKey(listing["source"], listing["source_id"])
                        IN  [acc EXCEPT
                               !.source_id_dict = @ \cup {source_key},
                               !.id_by_source_id =
                                   [k \in (DOMAIN @) \cup {source_key} |->
                                       IF k = source_key THEN listing["id"]
                                       ELSE @[k]]]
                   ELSE acc
             a2 == IF Truthy(Get(listing, "url"))
                   THEN [a1 EXCEPT !.url_dict = @ \cup {listing["url"]}]
                   ELSE a1
         IN  IndexRows(Tail(rows), a2)

get_existing_listing_ids(rows) == IndexRows(rows, EmptyIndex)

(***************************************************************************)
(* Store gateway: SupabaseConnector.save_listings                          *)
(***************************************************************************)
valid_fields == {"id", "title", "url", "price", "location", "description",
                 "images", "features", "size", "layout", "year_built",
                 "building_type", "access", "source", "property_type",
                 "created_at", "updated_at", "initial_fees"}

batch_size == 100

\* "created_at" is added to the caller's dict when it is missing
AddCreatedAt(listing) ==
    IF "created_at" \notin DOMAIN listing
    THEN Put(listing, "created_at", NowIso)
    ELSE listing

\* FilterListing without the test against valid_fields
FilterListingKeepsUnknown(listing) ==
    [key \in DOMAIN listing |->
        IF listing[key].kind \in {"list", "dict"}
        THEN JsonDumps(listing[key])
        ELSE listing[key]]

\* the projection of one listing on valid_fields, lists and dicts dumped
FilterListing(listing) ==
    [key \in (DOMAIN listing) \cap valid_fields |->
        IF listing[key].kind \in {"list", "dict"}
        THEN JsonDumps(listing[key])
        ELSE listing[key]]

\* AllKeys taking the keys of the first row for the keys of all
AllKeysOfFirstRow(rows) == DOMAIN rows[1]

\* all_keys: the union of the keys of the projected rows
AllKeys(rows) == UNION {DOMAIN rows[i] : i \in 1..Len(rows)}

\* every row gets every key of all_keys, None where it had none
PadListing(row, all_keys) ==
    [key \in all_keys |-> IF key \in DOMAIN row THEN row[key] ELSE None]

\* formatted_listings as it stands when the batch loop starts
FormatListings(listings) ==
    LET filtered == [i \in 1..Len(listings) |->
                        FilterListing(AddCreatedAt(listings[i]))]
        all_keys == AllKeys(filtered)
    IN  [i \in 1..Len(filtered) |-> PadListing(filtered[i], all_keys)]

\* formatted_listings[i:i+batch_size]
Batch(rows, i) ==
    SubSeq(rows, i + 1,
           IF i + batch_size < Len(rows) THEN i + batch_size ELSE Len(rows))

(***************************************************************************)
(* Reconciliation: the per-listing decision of run_scrapers_and_upload     *)
(***************************************************************************)
\* 'source_id' in listing and listing['source_id'], and the key is known
SourceIdMatch(listing, existing) ==
    /\ "source_id" \in DOMAIN listing
    /\ Truthy(listing["source_id"])
    /\ SourceKey(listing["source"], listing["source_id"])
           \in existing.source_id_dict

\* listing_id
ListingId(listing, existing) ==
    IF SourceIdMatch(listing, existing)
    THEN Get(existing.id_by_source_id,
             SourceKey(listing["source"], listing["source_id"]))
    ELSE None

\* the URL test, made only when the source id did not match
UrlMatch(listing, existing) ==
    /\ "url" \in DOMAIN listing
    /\ Truthy(listing["url"])
    /\ listing["url"] \in existing.url_dict

\* is_duplicate
IsDuplicate(listing, existing) ==
    \/ SourceIdMatch(listing, existing)
    \/ (~SourceIdMatch(listing, existing) /\ UrlMatch(listing, existing))

\* Outcome with the update branch lost: every duplicate is skipped
OutcomeNeverUpdates(listing, existing, update_existing) ==
    IF IsDuplicate(listing, existing) THEN "SKIP" ELSE "NEW"

\* Outcome with the skip branch falling through to the new listings
OutcomeSkipAsNew(listing, existing, update_existing) ==
    IF IsDuplicate(listing, existing)
       /\ update_existing /\ Truthy(ListingId(listing, existing))
    THEN "UPDATE"
    ELSE "NEW"

\* Outcome testing update_existing alone, not "and listing_id"
OutcomeIgnoresListingId(listing, existing, update_existing) ==
    IF IsDuplicate(listing, existing)
    THEN IF update_existing THEN "UPDATE" ELSE "SKIP"
    ELSE "NEW"

\* which branch of "if is_duplicate: ... else: ..." the listing takes
Outcome(listing, existing, update_existing) ==
    IF IsDuplicate(listing, existing)
    THEN IF update_existing /\ Truthy(ListingId(listing, existing))
         THEN "UPDATE"
         ELSE "SKIP"
    ELSE "NEW"

\* listing['id'] = listing_id
WithId(listing, existing) == Put(listing, "id", ListingId(listing, existing))

\* Classified with listing['id'] = listing_id hoisted out of the branch
ClassifiedAlwaysId(listing, existing, outcome) == WithId(listing, existing)

\* the dict as the branch taken leaves it: only the update branch sets 'id'
Classified(listing, existing, outcome) ==
    IF outcome = "UPDATE" THEN WithId(listing, existing) ELSE listing

(***************************************************************************)
(* Filtering before reconciliation                                         *)
(***************************************************************************)
HasImages(listing) == "images" \in DOMAIN listing /\ Truthy(listing["images"])

\* processed_results after process_images, the image-quality filter and the
\* max_listings cut
FilterResults(results, a) ==
    LET processed == [i \in 1..Len(results) |-> process_images(results[i])]
        kept == IF a.enforce_image_quality
                THEN SelectSeq(processed, HasImages)
                ELSE processed
    IN  IF a.max_listings > 0 /\ Len(kept) > a.max_listings
        THEN SubSeq(kept, 1, a.max_listings)
        ELSE kept

(***************************************************************************)
(* Inputs of the model                                                     *)
(***************************************************************************)
MaxResults == 2

MaxSaveRows == 201

\* sites/__init__.py
SCRAPERS == {"suumo", "homes", "athome", "akiyamart"}

\* values of --scrapers
ScraperNameLists == { << "suumo" >>, << "suumo", "homes" >>,
                      << "homes", "nosuchsite" >> }

ArgsSet ==
    [scrapers : ScraperNameLists,
     update_mode : BOOLEAN,
     update_existing : BOOLEAN,
     enforce_image_quality : BOOLEAN,
     max_listings : {0, 1}]

\* a row of the table as select("id,source_id,source,url") returns it
Row(id, source, source_id, url) ==
    [k \in {"id", "source", "source_id", "url"} |->
        CASE k = "id" -> Num(<< id >>)
          [] k = "source" -> Str(source)
          [] k = "source_id" -> source_id
          [] OTHER -> url]

StoreA == << Row("7", "suumo", Str("123"), Str("u1")),
             Row("9", "suumo", Str("123"), None),
             Row("8", "homes", Str("123"), None),
             Row("5", "homes", None, Str("u2")) >>

StoreB == << Row("3", "athome", Str("123"), Str("u1")),
             Row("4", "homes", Str(""), Str("u2")) >>

Stores == {StoreA, StoreB}

\* raw field-sets as the extractors build them, with their key order
RawC == [url |-> Str("u1"), title |-> Str("t"),
         price |-> Chars(<< "Y", "5", "0" >>), layout |-> Str("1K"),
         images |-> List(<< UrlPlain >>)]

RawCKeys == << "url", "title", "price", "layout", "images" >>

RawG == [url |-> None, title |-> Str("t"),
         price |-> Chars(<< "a", "b" >>), images |-> List(<< >>)]

RawGKeys == << "url", "title", "price", "images" >>

\* What scrape() of a site can return (BaseScraper.scrape: a list of dicts).
\* The registered scrapers build every dict with clean_data, which sets
\* 'source_url' and never 'url' or 'source_id'; the orchestrator reads 'url'
\* and 'source_id', so the model also returns dicts that carry those keys.
\* No returned dict has an 'id': the store assigns it.
SiteListings(name) ==
    IF name = "suumo"
    THEN { [source |-> Str(name), source_id |-> Str("123"), url |-> Str("u1"),
            title |-> Str("t"), images |-> List(<< UrlSmall, UrlLoading >>)],
           [source |-> Str(name), source_id |-> Str("999"), url |-> Str("u1"),
            features |-> List(<< "f" >>)],
           CleanData(RawCKeys, RawC, name),
           [source |-> Str(name), url |-> Str("u9"),
            images |-> List(<< UrlLoading >>)] }
    ELSE { [source |-> Str(name), source_id |-> Str("123"),
            images |-> List(<< UrlPlain, UrlPlain >>),
            features |-> List(<< "f", "g" >>)],
           [source |-> Str(name), url |-> Str("u2"), title |-> Str("t")],
           CleanData(RawGKeys, RawG, name),
           [source |-> Str(name), source_id |-> Str(""), url |-> None,
            images |-> List(<< >>)] }

ResultLists(name) ==
    UNION { [1..n -> SiteListings(name)] : n \in 0..MaxResults }

\* rows for a direct call of save_listings: the keys vary with the position
SaveRow(i, shape) ==
    LET base == [title |-> Str("t"), source_url |-> Str("u"),
                 images |-> List(<< UrlPlain >>)]
        r1 == IF shape = 2 /\ i % 2 = 1
              THEN Put(base, "price", Num(<< "5" >>)) ELSE base
        r2 == IF shape = 2 /\ i % 3 = 0
              THEN Put(r1, "features", List(<< "f" >>)) ELSE r1
        r3 == IF shape = 2 /\ i % 5 = 0
              THEN Put(r2, "created_at", Str("then")) ELSE r2
    IN  IF shape = 2 /\ i % 7 = 0 THEN Put(r3, "raw_floor", Str("2F")) ELSE r3

SaveInputs ==
    { [i \in 1..n |-> SaveRow(i, shape)] : n \in 0..MaxSaveRows, shape \in {1, 2} }

(***************************************************************************)
(* State machine                                                           *)
(***************************************************************************)
ScraperNames == args.scrapers

InitLocals ==
    /\ existing_listings = EmptyDict
    /\ index_fetched = 0
    /\ site_idx = 1
    /\ scraped = << >>
    /\ processed_results = << >>
    /\ new_listings = << >>
    /\ update_listings = << >>
    /\ ci = 1
    /\ total_uploaded = 0
    /\ total_updated = 0
    /\ total_skipped = 0
    /\ formatted_listings = << >>
    /\ save_i = 0
    /\ sent = << >>
    /\ save_result = FALSE
    /\ committed = 0
    /\ update_sent = << >>
    /\ sites_run = << >>
    /\ failed_sites = {}

\* no scrape() of the pagination study is running
NoPages ==
    /\ docs = << >>
    /\ page_count = 0
    /\ next_page_url = 0
    /\ page_doc = 0
    /\ self_results = << >>
    /\ fetched = << >>
    /\ failed_at = 0
    /\ saved = << >>
    /\ open_browsers = 0

NoCall == [fn |-> "none"]

\* no function call is under study
NoCalls ==
    /\ call = NoCall
    /\ ret = NoCall

\* main() calling run_scrapers_and_upload(args)
Init ==
    /\ args \in ArgsSet
    /\ db_client \in BOOLEAN
    /\ store \in Stores
    /\ pc = "start"
    /\ caller = "run"
    /\ save_input = << >>
    /\ InitLocals
    /\ NoPages
    /\ output_dir = FALSE
    /\ NoCalls

\* a direct call db.save_listings(listings)
InitSave ==
    /\ args = [scrapers |-> << >>, update_mode |-> FALSE,
               update_existing |-> FALSE, enforce_image_quality |-> FALSE,
               max_listings |-> 0]
    /\ db_client \in BOOLEAN
    /\ store = << >>
    /\ pc = "save_call"
    /\ caller = "direct"
    /\ save_input \in SaveInputs
    /\ InitLocals
    /\ NoPages
    /\ output_dir = FALSE
    /\ NoCalls

\* Start fetching the identity index whatever update_mode says
StartAlwaysFetches ==
    /\ pc = "start"
    /\ IF ~db_client
       THEN pc' = "done"
       ELSE IF \E i \in 1..Len(ScraperNames) : ScraperNames[i] \notin SCRAPERS
            THEN pc' = "done"
            ELSE pc' = "fetch_index"
    /\ UNCHANGED << sites_run, failed_sites, pagevars, callvars >>
    /\ UNCHANGED << args, db_client, store, existing_listings, index_fetched,
                    site_idx, processed_results, new_listings, update_listings,
                    ci, total_uploaded, total_updated, total_skipped,
                    save_input, formatted_listings, save_i, sent, save_result,
                    committed, update_sent, caller, scraped >>

\* lines 130-157: connection check, name validation, update-mode switch
Start ==
    /\ pc = "start"
    /\ IF ~db_client
       THEN pc' = "done"
       ELSE IF \E i \in 1..Len(ScraperNames) : ScraperNames[i] \notin SCRAPERS
            THEN pc' = "done"
            ELSE IF args.update_mode
                 THEN pc' = "fetch_index"
                 ELSE pc' = "site"
    /\ UNCHANGED << sites_run, failed_sites, pagevars, callvars >>
    /\ UNCHANGED << args, db_client, store, existing_listings, index_fetched,
                    site_idx, processed_results, new_listings, update_listings,
                    ci, total_uploaded, total_updated, total_skipped,
                    save_input, formatted_listings, save_i, sent, save_result,
                    committed, update_sent, caller, scraped >>

\* get_existing_listing_ids: the select() answers
GetExistingOk ==
    /\ pc = "fetch_index"
    /\ existing_listings' = get_existing_listing_ids(store)
    /\ index_fetched' = index_fetched + 1
    /\ pc' = "site"
    /\ UNCHANGED << sites_run, failed_sites, pagevars, callvars >>
    /\ UNCHANGED << args, db_client, store, site_idx, processed_results,
                    new_listings, update_listings, ci, total_uploaded,
                    total_updated, total_skipped, save_input,
                    formatted_listings, save_i, sent, save_result, committed,
                    update_sent, caller, scraped >>

\* GetExistingFail letting the failure end the run
GetExistingFailAborts ==
    /\ pc = "fetch_index"
    /\ existing_listings' = EmptyIndex
    /\ index_fetched' = index_fetched + 1
    /\ pc' = "done"
    /\ UNCHANGED << sites_run, failed_sites, pagevars, callvars >>
    /\ UNCHANGED << args, db_client, store, site_idx, processed_results,
                    new_listings, update_listings, ci, total_uploaded,
                    total_updated, total_skipped, save_input,
                    formatted_listings, save_i, sent, save_result, committed,
                    update_sent, caller, scraped >>

\* get_existing_listing_ids: the select() raises, the except branch answers
GetExistingFail ==
    /\ pc = "fetch_index"
    /\ existing_listings' = EmptyIndex
    /\ index_fetched' = index_fetched + 1
    /\ pc' = "site"
    /\ UNCHANGED << sites_run, failed_sites, pagevars, callvars >>
    /\ UNCHANGED << args, db_client, store, site_idx, processed_results,
                    new_listings, update_listings, ci, total_uploaded,
                    total_updated, total_skipped, save_input,
                    formatted_listings, save_i, sent, save_result, committed,
                    update_sent, caller, scraped >>

\* lines 159-197: scrape() returns, images are processed, results filtered
Scrape ==
    /\ pc = "site"
    /\ site_idx <= Len(ScraperNames)
    /\ \E results \in ResultLists(ScraperNames[site_idx]) :
          /\ scraped' = results
          /\ IF results = << >>
             THEN /\ pc' = "site"
                  /\ site_idx' = site_idx + 1
                  /\ UNCHANGED processed_results
             ELSE /\ processed_results' = FilterResults(results, args)
                  /\ pc' = IF args.update_mode THEN "classify" ELSE "upload"
                  /\ UNCHANGED site_idx
    /\ new_listings' = << >>
    /\ update_listings' = << >>
    /\ ci' = 1
    /\ sites_run' = Append(sites_run, ScraperNames[site_idx])
    /\ UNCHANGED << failed_sites, pagevars, callvars >>
    /\ UNCHANGED << args, db_client, store, existing_listings, index_fetched,
                    total_uploaded, total_updated, total_skipped, save_input,
                    formatted_listings, save_i, sent, save_result, committed,
                    update_sent, caller >>

\* ScrapeRaises letting the exception leave the site loop
ScrapeRaisesAborts ==
    /\ pc = "site"
    /\ site_idx <= Len(ScraperNames)
    /\ pc' = "done"
    /\ sites_run' = Append(sites_run, ScraperNames[site_idx])
    /\ failed_sites' = failed_sites \cup {site_idx}
    /\ UNCHANGED << pagevars, callvars >>
    /\ UNCHANGED << args, db_client, store, site_idx, existing_listings,
                    index_fetched, processed_results, new_listings,
                    update_listings, ci, total_uploaded, total_updated,
                    total_skipped, save_input, formatted_listings, save_i,
                    sent, save_result, committed, update_sent, caller,
                    scraped >>

\* scrape() raises: the except of the site loop logs and goes on
ScrapeRaises ==
    /\ pc = "site"
    /\ site_idx <= Len(ScraperNames)
    /\ site_idx' = site_idx + 1
    /\ sites_run' = Append(sites_run, ScraperNames[site_idx])
    /\ failed_sites' = failed_sites \cup {site_idx}
    /\ UNCHANGED << pagevars, callvars >>
    /\ UNCHANGED << args, db_client, store, pc, existing_listings,
                    index_fetched, processed_results, new_listings,
                    update_listings, ci, total_uploaded, total_updated,
                    total_skipped, save_input, formatted_listings, save_i,
                    sent, save_result, committed, update_sent, caller,
                    scraped >>

\* the site loop is over: the summary line
Finish ==
    /\ pc = "site"
    /\ site_idx > Len(ScraperNames)
    /\ pc' = "done"
    /\ UNCHANGED << sites_run, failed_sites, pagevars, callvars >>
    /\ UNCHANGED << args, db_client, store, existing_listings, index_fetched,
                    site_idx, processed_results, new_listings, update_listings,
                    ci, total_uploaded, total_updated, total_skipped,
                    save_input, formatted_listings, save_i, sent, save_result,
                    committed, update_sent, caller, scraped >>

\* Classify counting a listing queued for update as skipped too
ClassifyCountsUpdateAsSkip ==
    /\ pc = "classify"
    /\ ci <= Len(processed_results)
    /\ LET outcome == Outcome(processed_results[ci], existing_listings,
                              args.update_existing)
           listing == Classified(processed_results[ci], existing_listings,
                                 outcome)
       IN  /\ update_listings' =
                 IF outcome = "UPDATE" THEN Append(update_listings, listing)
                 ELSE update_listings
           /\ total_skipped' =
                 IF outcome \in {"SKIP", "UPDATE"} THEN total_skipped + 1
                 ELSE total_skipped
           /\ new_listings' =
                 IF outcome = "NEW" THEN Append(new_listings, listing)
                 ELSE new_listings
           /\ processed_results' = [processed_results EXCEPT ![ci] = listing]
    /\ ci' = ci + 1
    /\ UNCHANGED << sites_run, failed_sites, pagevars, callvars >>
    /\ UNCHANGED << args, db_client, store, pc, existing_listings,
                    index_fetched, site_idx, total_uploaded, total_updated,
                    save_input, formatted_listings, save_i, sent, save_result,
                    committed, update_sent, caller, scraped >>

\* one iteration of "for listing in processed_results" (lines 198-223)
Classify ==
    /\ pc = "classify"
    /\ ci <= Len(processed_results)
    /\ LET outcome == Outcome(processed_results[ci], existing_listings,
                              args.update_existing)
           listing == Classified(processed_results[ci], existing_listings,
                                 outcome)
       IN  /\ update_listings' =
                 IF outcome = "UPDATE" THEN Append(update_listings, listing)
                 ELSE update_listings
           /\ total_skipped' =
                 IF outcome = "SKIP" THEN total_skipped + 1 ELSE total_skipped
           /\ new_listings' =
                 IF outcome = "NEW" THEN Append(new_listings, listing)
                 ELSE new_listings
           /\ processed_results' = [processed_results EXCEPT ![ci] = listing]
    /\ ci' = ci + 1
    /\ UNCHANGED << sites_run, failed_sites, pagevars, callvars >>
    /\ UNCHANGED << args, db_client, store, pc, existing_listings,
                    index_fetched, site_idx, total_uploaded, total_updated,
                    save_input, formatted_listings, save_i, sent, save_result,
                    committed, update_sent, caller, scraped >>

\* lines 225-226: processed_results = new_listings
ClassifyEnd ==
    /\ pc = "classify"
    /\ ci > Len(processed_results)
    /\ processed_results' = new_listings
    /\ pc' = "upload"
    /\ UNCHANGED << sites_run, failed_sites, pagevars, callvars >>
    /\ UNCHANGED << args, db_client, store, existing_listings, index_fetched,
                    site_idx, new_listings, update_listings, ci,
                    total_uploaded, total_updated, total_skipped, save_input,
                    formatted_listings, save_i, sent, save_result, committed,
                    update_sent, caller, scraped >>

\* lines 229-232: db.save_listings(processed_results) is called, or not
Upload ==
    /\ pc = "upload"
    /\ IF processed_results # << >>
       THEN /\ save_input' = processed_results
            /\ pc' = "save_call"
       ELSE /\ pc' = "update"
            /\ UNCHANGED save_input
    /\ ci' = 1
    /\ update_sent' = << >>
    /\ UNCHANGED << sites_run, failed_sites, pagevars, callvars >>
    /\ UNCHANGED << args, db_client, store, existing_listings, index_fetched,
                    site_idx, processed_results, new_listings, update_listings,
                    total_uploaded, total_updated, total_skipped,
                    formatted_listings, save_i, sent, save_result, committed,
                    caller, scraped >>

\* save_listings, lines 90-140: the guards, the projection and the padding
SaveListingsBegin ==
    /\ pc = "save_call"
    /\ sent' = << >>
    /\ save_i' = 0
    /\ IF ~db_client \/ save_input = << >>
       THEN /\ save_result' = FALSE
            /\ pc' = "save_return"
            /\ formatted_listings' = << >>
            /\ UNCHANGED << save_input, processed_results >>
       ELSE /\ formatted_listings' = FormatListings(save_input)
            /\ save_input' = [i \in 1..Len(save_input) |->
                                 AddCreatedAt(save_input[i])]
            /\ processed_results' =
                  IF caller = "run" THEN save_input' ELSE processed_results
            /\ pc' = "save_batch"
            /\ UNCHANGED save_result
    /\ UNCHANGED << sites_run, failed_sites, pagevars, callvars >>
    /\ UNCHANGED << args, db_client, store, existing_listings, index_fetched,
                    site_idx, new_listings, update_listings, ci,
                    total_uploaded, total_updated, total_skipped, committed,
                    update_sent, caller, scraped >>

\* one batch: upsert(batch).execute() answers without error
SaveBatchOk ==
    /\ pc = "save_batch"
    /\ LET batch == Batch(formatted_listings, save_i)
       IN  /\ sent' = Append(sent, [rows |-> batch, ok |-> TRUE])
           /\ committed' = committed + Len(batch)
    /\ save_i' = save_i + batch_size
    /\ IF save_i' >= Len(formatted_listings)
       THEN /\ save_result' = TRUE
            /\ pc' = "save_return"
       ELSE UNCHANGED << save_result, pc >>
    /\ UNCHANGED << sites_run, failed_sites, pagevars, callvars >>
    /\ UNCHANGED << args, db_client, store, existing_listings, index_fetched,
                    site_idx, processed_results, new_listings, update_listings,
                    ci, total_uploaded, total_updated, total_skipped,
                    save_input, formatted_listings, update_sent, caller,
                    scraped >>

\* SaveBatchFail logging the error and going on with the next batch
SaveBatchFailGoesOn ==
    /\ pc = "save_batch"
    /\ sent' = Append(sent, [rows |-> Batch(formatted_listings, save_i),
                             ok |-> FALSE])
    /\ save_i' = save_i + batch_size
    /\ IF save_i' >= Len(formatted_listings)
       THEN /\ save_result' = TRUE
            /\ pc' = "save_return"
       ELSE UNCHANGED << save_result, pc >>
    /\ failed_sites' = IF caller = "run" THEN failed_sites \cup {site_idx}
                                      ELSE failed_sites
    /\ UNCHANGED << sites_run, pagevars, callvars >>
    /\ UNCHANGED << args, db_client, store, existing_listings, index_fetched,
                    site_idx, processed_results, new_listings, update_listings,
                    ci, total_uploaded, total_updated, total_skipped,
                    save_input, formatted_listings, committed,
                    update_sent, caller, scraped >>

\* one batch: upsert(batch).execute() raises or answers with an error
SaveBatchFail ==
    /\ pc = "save_batch"
    /\ sent' = Append(sent, [rows |-> Batch(formatted_listings, save_i),
                             ok |-> FALSE])
    /\ save_result' = FALSE
    /\ pc' = "save_return"
    /\ failed_sites' = IF caller = "run" THEN failed_sites \cup {site_idx}
                                      ELSE failed_sites
    /\ UNCHANGED << sites_run, pagevars, callvars >>
    /\ UNCHANGED << args, db_client, store, existing_listings, index_fetched,
                    site_idx, processed_results, new_listings, update_listings,
                    ci, total_uploaded, total_updated, total_skipped,
                    save_input, formatted_listings, save_i, committed,
                    update_sent, caller, scraped >>

\* lines 234-238: the orchestrator reads the result of save_listings
AfterSave ==
    /\ pc = "save_return"
    /\ caller = "run"
    /\ total_uploaded' = IF save_result
                         THEN total_uploaded + Len(processed_results)
                         ELSE total_uploaded
    /\ pc' = "update"
    /\ ci' = 1
    /\ UNCHANGED << sites_run, failed_sites, pagevars, callvars >>
    /\ UNCHANGED << args, db_client, store, existing_listings, index_fetched,
                    site_idx, processed_results, new_listings, update_listings,
                    total_updated, total_skipped, save_input,
                    formatted_listings, save_i, sent, save_result, committed,
                    update_sent, caller, scraped >>

UpdatesPending ==
    /\ update_listings # << >>
    /\ args.update_existing
    /\ ci <= Len(update_listings)

\* lines 243-247: update(listing).eq('id', ...).execute() answers
UpdateOk ==
    /\ pc = "update"
    /\ UpdatesPending
    /\ update_sent' = Append(update_sent, update_listings[ci])
    /\ total_updated' = total_updated + 1
    /\ ci' = ci + 1
    /\ UNCHANGED << sites_run, failed_sites, pagevars, callvars >>
    /\ UNCHANGED << args, db_client, store, pc, existing_listings,
                    index_fetched, site_idx, processed_results, new_listings,
                    update_listings, total_uploaded, total_skipped, save_input,
                    formatted_listings, save_i, sent, save_result, committed,
                    caller, scraped >>

\* UpdateFail leaving the loop over update_listings
UpdateFailEndsUpdates ==
    /\ pc = "update"
    /\ UpdatesPending
    /\ update_sent' = Append(update_sent, update_listings[ci])
    /\ ci' = Len(update_listings) + 1
    /\ failed_sites' = IF caller = "run" THEN failed_sites \cup {site_idx}
                                      ELSE failed_sites
    /\ UNCHANGED << sites_run, pagevars, callvars >>
    /\ UNCHANGED << args, db_client, store, pc, existing_listings,
                    index_fetched, site_idx, processed_results, new_listings,
                    update_listings, total_uploaded, total_updated,
                    total_skipped, save_input, formatted_listings, save_i,
                    sent, save_result, committed, caller, scraped >>

\* lines 248-249: the update raises, the error is logged
UpdateFail ==
    /\ pc = "update"
    /\ UpdatesPending
    /\ update_sent' = Append(update_sent, update_listings[ci])
    /\ ci' = ci + 1
    /\ failed_sites' = IF caller = "run" THEN failed_sites \cup {site_idx}
                                      ELSE failed_sites
    /\ UNCHANGED << sites_run, pagevars, callvars >>
    /\ UNCHANGED << args, db_client, store, pc, existing_listings,
                    index_fetched, site_idx, processed_results, new_listings,
                    update_listings, total_uploaded, total_updated,
                    total_skipped, save_input, formatted_listings, save_i,
                    sent, save_result, committed, caller, scraped >>

\* end of one iteration of the site loop; its locals go out of use
NextSite ==
    /\ pc = "update"
    /\ ~UpdatesPending
    /\ site_idx' = site_idx + 1
    /\ pc' = "site"
    /\ scraped' = << >>
    /\ processed_results' = << >>
    /\ new_listings' = << >>
    /\ update_listings' = << >>
    /\ ci' = 1
    /\ save_input' = << >>
    /\ formatted_listings' = << >>
    /\ save_i' = 0
    /\ sent' = << >>
    /\ update_sent' = << >>
    /\ UNCHANGED << sites_run, failed_sites, pagevars, callvars >>
    /\ UNCHANGED << args, db_client, store, existing_listings, index_fetched,
                    total_uploaded, total_updated, total_skipped, save_result,
                    committed, caller >>

Next ==
    \/ Start
    \/ GetExistingOk
    \/ GetExistingFail
    \/ Scrape
    \/ ScrapeRaises
    \/ Finish
    \/ Classify
    \/ ClassifyEnd
    \/ Upload
    \/ SaveListingsBegin
    \/ SaveBatchOk
    \/ SaveBatchFail
    \/ AfterSave
    \/ UpdateOk
    \/ UpdateFail
    \/ NextSite

Spec == Init /\ [][Next]_vars

NextSave ==
    \/ SaveListingsBegin
    \/ SaveBatchOk
    \/ SaveBatchFail

SpecSave == InitSave /\ [][NextSave]_vars

\* run_scrapers_and_upload(args) without update mode, after the scrape() of
\* its only site returned a long list and lines 159-197 ran on it
InitUpload ==
    /\ args = [scrapers |-> << "suumo" >>, update_mode |-> FALSE,
               update_existing |-> FALSE, enforce_image_quality |-> FALSE,
               max_listings |-> 0]
    /\ db_client = TRUE
    /\ store = << >>
    /\ pc = "upload"
    /\ caller = "run"
    /\ save_input = << >>
    /\ scraped \in SaveInputs \ { << >> }
    /\ processed_results = FilterResults(scraped, args)
    /\ existing_listings = EmptyDict
    /\ index_fetched = 0
    /\ site_idx = 1
    /\ new_listings = << >>
    /\ update_listings = << >>
    /\ ci = 1
    /\ total_uploaded = 0
    /\ total_updated = 0
    /\ total_skipped = 0
    /\ formatted_listings = << >>
    /\ save_i = 0
    /\ sent = << >>
    /\ save_result = FALSE
    /\ committed = 0
    /\ update_sent = << >>
    /\ sites_run = << "suumo" >>
    /\ failed_sites = {}
    /\ NoPages
    /\ output_dir = FALSE
    /\ NoCalls

NextUpload ==
    \/ Upload
    \/ SaveListingsBegin
    \/ SaveBatchOk
    \/ SaveBatchFail
    \/ AfterSave
    \/ NextSite
    \/ Finish

SpecUpload == InitUpload /\ [][NextUpload]_vars

(***************************************************************************)
(* Pagination: run_scrapers (run_scrapers.py) calling each site's scrape() *)
(***************************************************************************)
MaxDocs == 3

MaxPerPage == 1

HttpSites == {"suumo", "athome", "homes"}

\* what _extract_listings finds on page i when the page holds n listings
PageListings(i, n) == [k \in 1..n |-> << i, k >>]

\* a site's documents: every page but the last one has a next-page control
DocSeqs ==
    UNION { { [i \in 1..n |-> [listings |-> PageListings(i, c[i]),
                               has_next |-> i < n]] :
                c \in [1..n -> 0..MaxPerPage] } : n \in 1..MaxDocs }

PageNameLists == { << "suumo" >>, << "akiyamart" >>, << "athome", "homes" >>,
                   << "akiyamart", "suumo" >>, << "homes", "nosuchsite" >> }

PageArgs == { [scrapers |-> n, max_pages |-> k] :
                n \in PageNameLists, k \in 0..(MaxDocs + 1) }

site == ScraperNames[site_idx]

\* main() of run_scrapers.py calling run_scrapers(args)
InitPages ==
    /\ args \in PageArgs
    /\ pc = "pg_start"
    /\ db_client = FALSE
    /\ store = << >>
    /\ caller = "none"
    /\ save_input = << >>
    /\ InitLocals
    /\ NoPages
    /\ output_dir \in BOOLEAN
    /\ NoCalls

\* run_scrapers lines 37-50: os.makedirs(output_dir, exist_ok=True), then
\* the name validation
RunScrapersStart ==
    /\ pc = "pg_start"
    /\ output_dir' = TRUE
    /\ pc' = IF \E i \in 1..Len(ScraperNames) : ScraperNames[i] \notin SCRAPERS
             THEN "pg_done" ELSE "pg_site"
    /\ UNCHANGED << docs, page_count, next_page_url, page_doc, self_results,
                    fetched, failed_at, saved, open_browsers >>
    /\ UNCHANGED << args, site_idx, sites_run, failed_sites, runvars,
                    callvars >>

\* scrape() is entered: self.results = [], the first URL is built
ScrapeBegin ==
    /\ pc = "pg_site"
    /\ site_idx <= Len(ScraperNames)
    /\ docs' \in DocSeqs
    /\ self_results' = << >>
    /\ page_count' = 0
    /\ next_page_url' = IF site \in HttpSites THEN 1 ELSE 0
    /\ page_doc' = IF site \in HttpSites THEN 0 ELSE 1
    /\ fetched' = << >>
    /\ failed_at' = 0
    /\ sites_run' = Append(sites_run, site)
    /\ pc' = IF site \in HttpSites THEN "pg_loop" ELSE "pg_launch"
    /\ UNCHANGED << open_browsers, output_dir >>
    /\ UNCHANGED << args, site_idx, failed_sites, saved, runvars, callvars >>

\* the scraper's constructor or scrape() raises: the except of run_scrapers
ScrapeCallRaises ==
    /\ pc = "pg_site"
    /\ site_idx <= Len(ScraperNames)
    /\ sites_run' = Append(sites_run, site)
    /\ failed_sites' = failed_sites \cup {site_idx}
    /\ site_idx' = site_idx + 1
    /\ UNCHANGED << args, pc, runvars, pagevars, callvars >>

\* akiyamart line 80: async_playwright() started, chromium launched
BrowserLaunch ==
    /\ pc = "pg_launch"
    /\ open_browsers' = open_browsers + 1
    /\ UNCHANGED output_dir
    /\ pc' = "pg_context"
    /\ UNCHANGED << args, site_idx, sites_run, failed_sites, docs, page_count,
                    next_page_url, page_doc, self_results, fetched, failed_at,
                    saved, runvars, callvars >>

\* akiyamart lines 79-80: starting playwright or launching the browser
\* raises; the exception leaves scrape() for the except of run_scrapers
BrowserLaunchRaises ==
    /\ pc = "pg_launch"
    /\ failed_sites' = failed_sites \cup {site_idx}
    /\ site_idx' = site_idx + 1
    /\ pc' = "pg_site"
    /\ docs' = << >>
    /\ page_doc' = 0
    /\ UNCHANGED << args, sites_run, page_count, next_page_url, self_results,
                    fetched, failed_at, saved, open_browsers, output_dir,
                    runvars,
                    callvars >>

\* akiyamart lines 81-85: new_context() and new_page() answer
ContextOk ==
    /\ pc = "pg_context"
    /\ pc' = "pg_navigate"
    /\ UNCHANGED << args, site_idx, sites_run, failed_sites, runvars,
                    pagevars, callvars >>

\* akiyamart lines 81-85: new_context() or new_page() raises; the lines are
\* before the try, so neither its except nor its finally runs and the
\* exception leaves scrape() for the except of run_scrapers
ContextRaises ==
    /\ pc = "pg_context"
    /\ failed_sites' = failed_sites \cup {site_idx}
    /\ site_idx' = site_idx + 1
    /\ pc' = "pg_site"
    /\ docs' = << >>
    /\ page_doc' = 0
    /\ UNCHANGED << args, sites_run, page_count, next_page_url, self_results,
                    fetched, failed_at, saved, open_browsers, output_dir,
                    runvars,
                    callvars >>

\* akiyamart lines 87-158: the search page and the direct URLs are visited
NavigateOk ==
    /\ pc = "pg_navigate"
    /\ pc' = "pg_loop"
    /\ UNCHANGED << args, site_idx, sites_run, failed_sites, runvars,
                    pagevars, callvars >>

\* akiyamart lines 87-158, 224-225: goto, screenshot or content raises and
\* the outer except logs it
NavigateRaises ==
    /\ pc = "pg_navigate"
    /\ failed_at' = page_doc
    /\ failed_sites' = failed_sites \cup {site_idx}
    /\ pc' = "pg_finally"
    /\ UNCHANGED << args, site_idx, sites_run, docs, page_count,
                    next_page_url, page_doc, self_results, fetched, saved,
                    open_browsers, output_dir, runvars, callvars >>

\* akiyamart lines 226-228 and 50-52: the finally closes the browser and
\* scrape() returns self.results
BrowserClose ==
    /\ pc = "pg_finally"
    /\ open_browsers' = open_browsers - 1
    /\ UNCHANGED output_dir
    /\ pc' = "pg_returned"
    /\ UNCHANGED << args, site_idx, sites_run, failed_sites, docs, page_count,
                    next_page_url, page_doc, self_results, fetched, failed_at,
                    saved, runvars, callvars >>

\* the while condition never looking at max_pages
LoopContinuesNoLimit ==
    IF site \in HttpSites THEN next_page_url # 0 ELSE TRUE

\* the while condition of scrape()
LoopContinues ==
    IF site \in HttpSites
    THEN next_page_url # 0 /\ page_count < args.max_pages
    ELSE page_count < args.max_pages

\* one iteration of the while loop of an HTTP scraper: get_html answers
FetchPageOk ==
    /\ pc = "pg_loop"
    /\ site \in HttpSites
    /\ LoopContinues
    /\ fetched' = Append(fetched, next_page_url)
    /\ self_results' = self_results \o docs[next_page_url].listings
    /\ next_page_url' = IF docs[next_page_url].has_next
                        THEN next_page_url + 1 ELSE 0
    /\ page_count' = page_count + 1
    /\ UNCHANGED << open_browsers, output_dir >>
    /\ UNCHANGED << args, pc, site_idx, sites_run, failed_sites, docs,
                    page_doc, failed_at, saved, runvars, callvars >>

\* FetchPageFails going on with the page after the failed one
FetchPageFailsGoesOn ==
    /\ pc = "pg_loop"
    /\ site \in HttpSites
    /\ LoopContinues
    /\ fetched' = Append(fetched, next_page_url)
    /\ failed_at' = next_page_url
    /\ failed_sites' = failed_sites \cup {site_idx}
    /\ next_page_url' = IF docs[next_page_url].has_next
                        THEN next_page_url + 1 ELSE 0
    /\ page_count' = page_count + 1
    /\ UNCHANGED << open_browsers, output_dir >>
    /\ UNCHANGED << args, pc, site_idx, sites_run, docs, self_results,
                    page_doc, saved, runvars, callvars >>

\* get_html raises: the except branch logs and breaks
FetchPageFails ==
    /\ pc = "pg_loop"
    /\ site \in HttpSites
    /\ LoopContinues
    /\ fetched' = Append(fetched, next_page_url)
    /\ failed_at' = next_page_url
    /\ failed_sites' = failed_sites \cup {site_idx}
    /\ pc' = "pg_returned"
    /\ UNCHANGED << open_browsers, output_dir >>
    /\ UNCHANGED << args, site_idx, sites_run, docs, page_count,
                    next_page_url, self_results, page_doc, saved, runvars,
                    callvars >>

\* one iteration of akiyamart's loop (lines 163-217) without an exception
AkiyaPage ==
    /\ pc = "pg_loop"
    /\ site \notin HttpSites
    /\ LoopContinues
    /\ fetched' = Append(fetched, page_doc)
    /\ self_results' = self_results \o docs[page_doc].listings
    /\ IF docs[page_doc].has_next
       THEN /\ page_doc' = page_doc + 1
            /\ page_count' = page_count + 1
            /\ UNCHANGED pc
       ELSE /\ pc' = "pg_finally"
            /\ UNCHANGED << page_doc, page_count >>
    /\ UNCHANGED << open_browsers, output_dir >>
    /\ UNCHANGED << args, site_idx, sites_run, failed_sites, docs,
                    next_page_url, failed_at, saved, runvars, callvars >>

\* akiyamart lines 219-223: an exception inside the loop body, raised before
\* the listings were added or by the click / the wait after it
AkiyaPageRaises ==
    /\ pc = "pg_loop"
    /\ site \notin HttpSites
    /\ LoopContinues
    /\ \E extracted \in BOOLEAN :
          /\ IF extracted
             THEN /\ self_results' = self_results \o docs[page_doc].listings
                  /\ fetched' = Append(fetched, page_doc)
                  /\ page_doc' \in {page_doc} \cup
                        (IF docs[page_doc].has_next THEN {page_doc + 1} ELSE {})
             ELSE UNCHANGED << self_results, fetched, page_doc >>
    /\ failed_at' = page_doc
    /\ failed_sites' = failed_sites \cup {site_idx}
    /\ page_count' = page_count + 1
    /\ UNCHANGED << open_browsers, output_dir >>
    /\ UNCHANGED << args, pc, site_idx, sites_run, docs, next_page_url,
                    saved, runvars, callvars >>

\* the while condition is false: scrape() returns self.results
LoopExit ==
    /\ pc = "pg_loop"
    /\ ~LoopContinues
    /\ pc' = IF site \in HttpSites THEN "pg_returned" ELSE "pg_finally"
    /\ UNCHANGED << args, site_idx, sites_run, failed_sites, runvars,
                    pagevars, callvars >>

\* run_scrapers lines 68-81: a non-empty result is written to a file
SaveResults ==
    /\ pc = "pg_returned"
    /\ saved' = IF self_results # << >> THEN Append(saved, site) ELSE saved
    /\ site_idx' = site_idx + 1
    /\ pc' = "pg_site"
    /\ docs' = << >>
    /\ page_count' = 0
    /\ next_page_url' = 0
    /\ page_doc' = 0
    /\ self_results' = << >>
    /\ fetched' = << >>
    /\ failed_at' = 0
    /\ UNCHANGED << open_browsers, output_dir >>
    /\ UNCHANGED << args, sites_run, failed_sites, runvars, callvars >>

\* run_scrapers lines 76-84: writing the file raises
SaveResultsRaises ==
    /\ pc = "pg_returned"
    /\ self_results # << >>
    /\ failed_sites' = failed_sites \cup {site_idx}
    /\ site_idx' = site_idx + 1
    /\ pc' = "pg_site"
    /\ docs' = << >>
    /\ page_count' = 0
    /\ next_page_url' = 0
    /\ page_doc' = 0
    /\ self_results' = << >>
    /\ fetched' = << >>
    /\ failed_at' = 0
    /\ UNCHANGED << open_browsers, output_dir >>
    /\ UNCHANGED << args, sites_run, saved, runvars, callvars >>

\* the loop over scraper_names is over
RunScrapersFinish ==
    /\ pc = "pg_site"
    /\ site_idx > Len(ScraperNames)
    /\ pc' = "pg_done"
    /\ UNCHANGED << args, site_idx, sites_run, failed_sites, runvars,
                    pagevars, callvars >>

NextPages ==
    \/ RunScrapersStart
    \/ ScrapeBegin
    \/ ScrapeCallRaises
    \/ BrowserLaunch
    \/ BrowserLaunchRaises
    \/ ContextOk
    \/ ContextRaises
    \/ NavigateOk
    \/ NavigateRaises
    \/ BrowserClose
    \/ FetchPageOk
    \/ FetchPageFails
    \/ AkiyaPage
    \/ AkiyaPageRaises
    \/ LoopExit
    \/ SaveResults
    \/ SaveResultsRaises
    \/ RunScrapersFinish

SpecPages == InitPages /\ [][NextPages]_vars

(***************************************************************************)
(* Site extractors: what one container of a page becomes                   *)
(***************************************************************************)
\* A container is what the selectors find in it: for title, price and
\* location None (no such element), the empty text or a text; link says
\* whether an anchor with an href is there.
\* "50" followed by the two characters of the man-yen unit
PriceManYen == Chars(<< "5", "0", "man", "yen" >>)

PriceAsk == Chars(<< "a", "s", "k" >>)

Containers ==
    [title    : {None, Chars(<< >>), Str("t")},
     price    : {None, Chars(<< >>), PriceManYen, PriceAsk},
     location : {None, Chars(<< >>), Str("okayama")},
     link     : BOOLEAN]

Extractors == {"athome", "homes_fallback", "akiyamart"}

SiteOf(extractor) == IF extractor = "homes_fallback" THEN "homes" ELSE extractor

\* listing_data as the extractor builds it from container c
ListingData(extractor, c) ==
    LET HasKey(k) ==
            CASE extractor = "athome" ->
                     \/ k \in {"url", "images"}
                     \/ k \in {"title", "price", "location"} /\ c[k] # None
              [] extractor = "homes_fallback" ->
                     \/ k \in {"url", "images"}
                     \/ k \in {"title", "location"} /\ c[k] # None
                     \/ k = "price" /\ c.price = PriceManYen
              [] OTHER ->
                     \/ k \in {"title", "price", "location"} /\ Truthy(c[k])
                     \/ k = "url" /\ c.link
        Value(k) ==
            CASE k = "url" ->
                     IF extractor = "athome" /\ ~(c.link /\ c.title # None)
                     THEN None ELSE Str("u")
              [] k = "images" -> List(<< >>)
              [] OTHER -> c[k]
    IN  [k \in {x \in {"url", "title", "price", "location", "images"} :
                    HasKey(x)} |-> Value(k)]

\* whether the extractor appends the record built from container c
Retained(extractor, c) ==
    LET listing_data == ListingData(extractor, c)
    IN  CASE extractor = "athome" -> TRUE
          [] extractor = "homes_fallback" ->
                 /\ c.link
                 /\ ("price" \in DOMAIN listing_data
                        \/ "title" \in DOMAIN listing_data)
          [] OTHER ->
                 \/ Truthy(Get(listing_data, "title"))
                 \/ Truthy(Get(listing_data, "price"))
                 \/ Truthy(Get(listing_data, "location"))

RECURSIVE ExtractListings(_, _)
\* the loop over the containers of a page
ExtractListings(extractor, containers) ==
    IF containers = << >> THEN << >>
    ELSE LET c == Head(containers)
             listing_data == ListingData(extractor, c)
             keys == SelectSeq(<< "url", "title", "price", "location",
                                  "images" >>,
                               LAMBDA k : k \in DOMAIN listing_data)
             rest == ExtractListings(extractor, Tail(containers))
         IN  IF Retained(extractor, c)
             THEN << CleanData(keys, listing_data, SiteOf(extractor)) >>
                      \o rest
             ELSE rest

(***************************************************************************)
(* Single function calls                                                   *)
(***************************************************************************)
MaxContainers == 1

ExtractCalls ==
    { [fn |-> "extract", extractor |-> e, containers |-> cs] :
        e \in Extractors,
        cs \in UNION { [1..n -> Containers] : n \in 0..MaxContainers } }

MaxKeys == 3

\* keys a scraper may put into the dict it hands to clean_data
RawKeyPool == {"url", "price", "title", "layout", "raw_layout", "source"}

\* raw price values: strings as character sequences, and None
RawPrices == { Chars(<< "Y", "5", "0" >>), Chars(<< "5", ".", "9" >>),
               Chars(<< "0", "7" >>), Chars(<< "a", "s", "k" >>),
               Chars(<< >>), Chars(<< "." >>),
               Chars(<< "1", ".", "2", ".", "3" >>), None }

\* the insertion orders of up to MaxKeys different keys
KeyOrders ==
    UNION { { ks \in [1..n -> RawKeyPool] :
                \A i, j \in 1..n : ks[i] = ks[j] => i = j } :
            n \in 0..MaxKeys }

\* the dict with the keys ks: every key has a value of its own
RawData(ks, price) ==
    [k \in {ks[i] : i \in 1..Len(ks)} |->
        IF k = "price" THEN price ELSE Str("value of " \o k)]

CleanCalls ==
    { [fn |-> "clean_data", keys |-> ks, data |-> RawData(ks, p)] :
        ks \in KeyOrders, p \in RawPrices }

MaxImages == 3

ImageCalls ==
    { [fn |-> "process_images", listing |-> [images |-> List(urls)]] :
        urls \in UNION { [1..n -> ImageUrls] : n \in 0..MaxImages } }

\* urljoin("https://www.homes.co.jp", "/img/c.jpg")
UrlHomesJoined == "https://www.homes.co.jp/img/c.jpg"

RECURSIVE Unique(_)
\* homes.py lines 551-557: duplicates removed, first occurrences kept in order
Unique(urls) ==
    IF urls = << >> THEN << >>
    ELSE LET front == Unique(SubSeq(urls, 1, Len(urls) - 1))
             last == urls[Len(urls)]
         IN  IF \E i \in 1..Len(front) : front[i] = last
             THEN front ELSE Append(front, last)

\* _fetch_high_res_images: detail.raises says that get_html or the parsing
\* raised, detail.images are the image sources of the first matching gallery
fetch_high_res_images(detail) ==
    IF detail.raises THEN << >>
    ELSE LET kept == SelectSeq(detail.images,
                         LAMBDA u : u # "" /\ ~HasSkipPattern(u))
             Resolved(u) ==
                 LET joined == IF u = UrlRelative THEN UrlHomesJoined ELSE u
                 IN  IF IsSmallimgWithFile(joined) /\ QueryFile(joined) # << >>
                     THEN QueryFile(joined)[1] ELSE joined
         IN  Unique([i \in 1..Len(kept) |-> Resolved(kept[i])])

\* the detail-page images replacing the thumbnails whatever they are
EnrichedImagesAlwaysReplaced(thumbnails, detail_url, detail) ==
    IF detail_url THEN fetch_high_res_images(detail) ELSE thumbnails

\* homes.py lines 239-246: listing_data["images"] after the enrichment
EnrichedImages(thumbnails, detail_url, detail) ==
    IF detail_url /\ fetch_high_res_images(detail) # << >>
    THEN fetch_high_res_images(detail)
    ELSE thumbnails

DetailPages ==
    { [raises |-> r, images |-> imgs] :
        r \in BOOLEAN,
        imgs \in UNION { [1..n -> {UrlPlainB, UrlSmall, UrlBlank, UrlRelative,
                                   ""}] : n \in 0..MaxImages } }

EnrichCalls ==
    { [fn |-> "enrich", thumbnails |-> t, detail_url |-> d, detail |-> p] :
        t \in { << >>, << UrlPlain >>, << UrlPlain, UrlPlainB >> },
        d \in BOOLEAN, p \in DetailPages }

MaxRetriesArg == 3

\* the argument of stop_after_attempt in the decorator of RequestsSession.get
stop_after_attempt == 3

\* session.get(url) on a session built with RequestsSession(max_retries=m)
GetCalls == { [fn |-> "get", max_retries |-> m] : m \in 1..MaxRetriesArg }

Calls == ExtractCalls \cup CleanCalls \cup ImageCalls \cup EnrichCalls
            \cup GetCalls

InitCalls ==
    /\ call \in Calls
    /\ ret = NoCall
    /\ pc = "call"
    /\ args = [scrapers |-> << >>]
    /\ db_client = FALSE
    /\ store = << >>
    /\ caller = "none"
    /\ save_input = << >>
    /\ InitLocals
    /\ NoPages
    /\ output_dir = FALSE

\* _extract_listings / _fallback_extract_listings on one page
CallExtract ==
    /\ pc = "call"
    /\ call.fn = "extract"
    /\ ret' = [fn |-> "extract",
               listings |-> ExtractListings(call.extractor, call.containers)]
    /\ pc' = "returned"
    /\ UNCHANGED << args, site_idx, sites_run, failed_sites, runvars,
                    pagevars, call >>

\* scraper.clean_data(data) of the scraper named "athome"
CallCleanData ==
    /\ pc = "call"
    /\ call.fn = "clean_data"
    /\ ret' = [fn |-> "clean_data",
               cleaned |-> CleanData(call.keys, call.data, "athome")]
    /\ pc' = "returned"
    /\ UNCHANGED << args, site_idx, sites_run, failed_sites, runvars,
                    pagevars, call >>

\* process_images(listing)
CallProcessImages ==
    /\ pc = "call"
    /\ call.fn = "process_images"
    /\ ret' = [fn |-> "process_images",
               listing |-> process_images(call.listing)]
    /\ pc' = "returned"
    /\ UNCHANGED << args, site_idx, sites_run, failed_sites, runvars,
                    pagevars, call >>

\* HomesScraper._extract_listings on one listing card, from the thumbnail
\* collection (line 228) to listings.append (line 250)
CallEnrich ==
    /\ pc = "call"
    /\ call.fn = "enrich"
    /\ LET listing_data ==
               [title |-> Str("t"),
                images |-> List(EnrichedImages(call.thumbnails,
                                               call.detail_url, call.detail))]
       IN  ret' = [fn |-> "enrich",
                   listings |-> << CleanData(<< "title", "images" >>,
                                             listing_data, "homes") >>]
    /\ pc' = "returned"
    /\ UNCHANGED << args, site_idx, sites_run, failed_sites, runvars,
                    pagevars, call >>

\* the number of attempts session.get has made so far
Attempts == IF ret.fn = "get" THEN ret.attempts ELSE 0

\* one attempt of RequestsSession.get answers: the response is returned
GetAttemptOk ==
    /\ pc = "call"
    /\ call.fn = "get"
    /\ ret' = [fn |-> "get", attempts |-> Attempts + 1, raised |-> FALSE]
    /\ pc' = "returned"
    /\ UNCHANGED << args, site_idx, sites_run, failed_sites, runvars,
                    pagevars, call >>

\* one attempt raises: the decorator waits and tries again, or gives up
\* after attempt number stop_after_attempt and raises
GetAttemptFails ==
    /\ pc = "call"
    /\ call.fn = "get"
    /\ IF Attempts + 1 >= stop_after_attempt
       THEN /\ ret' = [fn |-> "get", attempts |-> Attempts + 1,
                       raised |-> TRUE]
            /\ pc' = "returned"
       ELSE /\ ret' = [fn |-> "get", attempts |-> Attempts + 1,
                       raised |-> FALSE]
            /\ UNCHANGED pc
    /\ UNCHANGED << args, site_idx, sites_run, failed_sites, runvars,
                    pagevars, call >>

NextCalls ==
    \/ CallExtract
    \/ CallCleanData
    \/ CallProcessImages
    \/ CallEnrich
    \/ GetAttemptOk
    \/ GetAttemptFails

SpecCalls == InitCalls /\ [][NextCalls]_vars

(***************************************************************************)
(* Vocabulary of the properties: identities as the store snapshot has them *)
(***************************************************************************)
StoreRows == {store[i] : i \in 1..Len(store)}

Range(seq) == {seq[i] : i \in 1..Len(seq)}

IndexLoaded == DOMAIN existing_listings # {}

HasSourceId(l) == "source_id" \in DOMAIN l /\ Truthy(l["source_id"])

\* the stored rows with the (source, source_id) of l
RowsOfIdentity(l) ==
    {r \in StoreRows : /\ Truthy(r["source_id"])
                       /\ r["source"] = l["source"]
                       /\ r["source_id"] = l["source_id"]}

\* (source, source_id) of l is in the index fetched at the start of the run
KnownBySourceId(l) ==
    /\ HasSourceId(l)
    /\ IndexLoaded
    /\ existing_listings.source_id_dict # {}
    /\ RowsOfIdentity(l) # {}

\* the 'url' of l is the URL of a row of the index
KnownByUrl(l) ==
    /\ "url" \in DOMAIN l
    /\ Truthy(l["url"])
    /\ IndexLoaded
    /\ existing_listings.url_dict # {}
    /\ \E r \in StoreRows : r["url"] = l["url"]

\* a record built by the field normalizer
Normalized(l) == {"source", "source_url", "scraped_at"} \subseteq DOMAIN l

\* the listings handed over as NEW: the local list and the upsert argument
NewWriteSet ==
    Range(new_listings) \cup (IF caller = "run" THEN Range(save_input) ELSE {})

(***************************************************************************)
(* C1: in update mode with update_existing, every classified listing whose *)
(* source_id is present and whose (source, source_id) is in the index is   *)
(* in the UPDATE set carrying the id of a stored row of that identity, and *)
(* no such listing is in the NEW write set.                                *)
(***************************************************************************)
C1_KnownSourceIdIsUpdated ==
    (args.update_mode /\ args.update_existing) =>
        /\ \A l \in NewWriteSet : ~KnownBySourceId(l)
        /\ pc = "classify" =>
             \A i \in 1..(ci - 1) :
                LET l == processed_results[i]
                IN  KnownBySourceId(l) =>
                       /\ l \in Range(update_listings)
                       /\ "id" \in DOMAIN l
                       /\ l["id"] \in {r["id"] : r \in RowsOfIdentity(l)}

C1_Witness ==
    /\ args.update_mode /\ args.update_existing
    /\ pc = "classify" /\ ci > 1
    /\ KnownBySourceId(processed_results[ci - 1])
    /\ processed_results[ci - 1] \in Range(update_listings)
    /\ processed_results[ci - 1]["id"] = Num(<< "9" >>)

(***************************************************************************)
(* C2: in update mode, a normalized listing with no matching               *)
(* (source, source_id) whose source_url is the URL of a stored row is a    *)
(* duplicate: it is not in the NEW write set and is not upserted.          *)
(***************************************************************************)
SourceUrlStored(l) ==
    /\ IndexLoaded
    /\ existing_listings.url_dict # {}
    /\ Truthy(l["source_url"])
    /\ \E r \in StoreRows : r["url"] = l["source_url"]

C2_SourceUrlDuplicateNotNew ==
    args.update_mode =>
        \A l \in NewWriteSet :
            (Normalized(l) /\ ~KnownBySourceId(l)) => ~SourceUrlStored(l)

(***************************************************************************)
(* C3: in update mode without update_existing, a listing classified        *)
(* DUPLICATE goes neither to NEW nor to UPDATE and adds exactly 1 to the   *)
(* skipped counter; nothing is ever queued or sent as an update.           *)
(***************************************************************************)
ClassifyingDuplicate ==
    /\ pc = "classify"
    /\ ci <= Len(processed_results)
    /\ \/ KnownBySourceId(processed_results[ci])
       \/ KnownByUrl(processed_results[ci])

C3_DuplicateSkippedAndCounted ==
    [][ (args.update_mode /\ ~args.update_existing) =>
           /\ update_listings' = << >>
           /\ update_sent' = << >>
           /\ ClassifyingDuplicate =>
                /\ total_skipped' = total_skipped + 1
                /\ new_listings' = new_listings ]_vars

C3_Witness ==
    /\ args.update_mode /\ ~args.update_existing
    /\ pc = "classify" /\ ci = 3
    /\ KnownBySourceId(processed_results[1])
    /\ KnownByUrl(processed_results[2])
    /\ total_skipped >= 2
    /\ new_listings = << >>

(***************************************************************************)
(* C4: with update_mode off the identity index is never fetched, every     *)
(* listing that survives filtering is handed to save_listings as NEW, in   *)
(* order, whether or not the store knows its identity, and nothing is      *)
(* skipped or updated.                                                     *)
(***************************************************************************)
Survivors == FilterResults(scraped, args)

C4_AppendOnlyMode ==
    [][ ~args.update_mode =>
           /\ index_fetched' = 0
           /\ ~IndexLoaded'
           /\ total_skipped' = 0
           /\ total_updated' = 0
           /\ update_listings' = << >>
           /\ update_sent' = << >>
           /\ (pc = "upload" /\ Survivors # << >>) =>
                 /\ pc' = "save_call"
                 /\ save_input' = Survivors ]_vars

C4_Witness ==
    /\ ~args.update_mode
    /\ pc = "save_call" /\ caller = "run"
    /\ Len(save_input) = 2
    /\ \E l \in Range(save_input) :
          HasSourceId(l) /\ RowsOfIdentity(l) # {}

(***************************************************************************)
(* C5: a listing that is a duplicate by its URL only (its                  *)
(* (source, source_id) is not in the index) is never put in the UPDATE     *)
(* set, update_existing or not: it is skipped and counted.                 *)
(***************************************************************************)
ClassifyingUrlOnlyDuplicate ==
    /\ pc = "classify"
    /\ ci <= Len(processed_results)
    /\ ~KnownBySourceId(processed_results[ci])
    /\ KnownByUrl(processed_results[ci])

C5_UrlOnlyDuplicateSkipped ==
    [][ ClassifyingUrlOnlyDuplicate =>
           /\ update_listings' = update_listings
           /\ new_listings' = new_listings
           /\ total_skipped' = total_skipped + 1 ]_vars

C5_Witness ==
    /\ args.update_mode /\ args.update_existing
    /\ pc = "classify" /\ ci = 2
    /\ HasSourceId(processed_results[1])
    /\ ~KnownBySourceId(processed_results[1])
    /\ KnownByUrl(processed_results[1])
    /\ total_skipped >= 1
    /\ update_listings = << >>

(***************************************************************************)
(* C6: a listing carries an 'id' only if its (source, source_id) or its    *)
(* URL is in the identity snapshot, the id being that of a stored row; no  *)
(* listing of the NEW write set and no upserted row carries an id.         *)
(***************************************************************************)
ListingsInHand ==
    Range(processed_results) \cup Range(new_listings)
        \cup Range(update_listings) \cup Range(update_sent)
        \cup (IF caller = "run" THEN Range(save_input) ELSE {})

C6_IdOnlyFromSnapshot ==
    /\ \A l \in ListingsInHand :
          "id" \in DOMAIN l =>
              /\ KnownBySourceId(l) \/ KnownByUrl(l)
              /\ l["id"] \in {r["id"] : r \in StoreRows}
    /\ \A l \in NewWriteSet : "id" \notin DOMAIN l
    /\ \A c \in 1..Len(sent) :
          \A r \in Range(sent[c].rows) : "id" \notin DOMAIN r

C6_Witness ==
    /\ pc = "update"
    /\ Len(update_sent) = 1
    /\ "id" \in DOMAIN update_sent[1]
    /\ KnownBySourceId(update_sent[1])
    /\ Len(sent) = 1 /\ sent[1].ok

(***************************************************************************)
(* Vocabulary of the store-gateway properties                              *)
(***************************************************************************)
\* the rows handed to upsert() so far in this call, chunk after chunk
RECURSIVE Flatten(_)
Flatten(chunks) ==
    IF chunks = << >> THEN << >>
    ELSE Head(chunks).rows \o Flatten(Tail(chunks))

RECURSIVE OkRows(_)
\* number of rows in the chunks the store accepted
OkRows(chunks) ==
    IF chunks = << >> THEN 0
    ELSE (IF Head(chunks).ok THEN Len(Head(chunks).rows) ELSE 0)
            + OkRows(Tail(chunks))

AllChunksOk == \A c \in 1..Len(sent) : sent[c].ok

\* the keys the listings of the call have on the whitelist
ProjectedKeys(l) == (DOMAIN l) \cap valid_fields

(***************************************************************************)
(* C7: in one save_listings call every transmitted row has the same key    *)
(* set, the union of the projected keys of all rows of the call, with      *)
(* None for each key the row's listing lacked.                             *)
(***************************************************************************)
C7_UniformKeySet ==
    LET rows == Flatten(sent)
        union == UNION {ProjectedKeys(save_input[i]) : i \in 1..Len(save_input)}
    IN  \A i \in 1..Len(rows) :
           /\ DOMAIN rows[i] = union
           /\ \A k \in union \ ProjectedKeys(save_input[i]) : rows[i][k] = None

C7_Witness ==
    /\ pc = "save_return" /\ save_result
    /\ Len(sent) = 3
    /\ \E i, j \in 1..Len(save_input) :
          ProjectedKeys(save_input[i]) # ProjectedKeys(save_input[j])
    /\ "features" \notin DOMAIN save_input[1]
    /\ sent[1].rows[1]["features"] = None

(***************************************************************************)
(* C8: the rows go out in consecutive chunks of at most batch_size rows,   *)
(* in input order, one at a time; after the first failed chunk nothing     *)
(* more is sent and the call returns False; what the store accepted stays  *)
(* committed; the call returns True only if every chunk went through.      *)
(***************************************************************************)
C8_ChunksInOrderStopAtFailure ==
    /\ \A c \in 1..Len(sent) :
          /\ Len(sent[c].rows) <= batch_size
          /\ Len(sent[c].rows) >= 1
          /\ c < Len(sent) => (sent[c].ok /\ Len(sent[c].rows) = batch_size)
    /\ Flatten(sent) = SubSeq(formatted_listings, 1, Len(Flatten(sent)))
    /\ committed = OkRows(sent)
    /\ (sent # << >> /\ ~sent[Len(sent)].ok) =>
           (pc = "save_return" /\ ~save_result)
    /\ (pc = "save_return" /\ save_result) =>
           (AllChunksOk /\ Flatten(sent) = formatted_listings
              /\ Len(formatted_listings) = Len(save_input))
    /\ (pc = "save_return" /\ AllChunksOk /\ db_client /\ save_input # << >>)
           => save_result

C8_Witness ==
    /\ pc = "save_return" /\ ~save_result
    /\ Len(formatted_listings) > 2 * batch_size
    /\ Len(sent) = 2
    /\ sent[1].ok /\ ~sent[2].ok
    /\ committed = batch_size

(***************************************************************************)
(* C9: every row the batch upsert transmits has keys of the whitelist      *)
(* only; a listing with other fields loses them and the call goes on: it   *)
(* returns False only without a connection, without listings, or when the  *)
(* store refuses a chunk.                                                  *)
(***************************************************************************)
C9_OnlyWhitelistedKeys ==
    /\ \A c \in 1..Len(sent) :
          \A r \in Range(sent[c].rows) : DOMAIN r \subseteq valid_fields
    /\ (pc = "save_return" /\ ~save_result) =>
           \/ ~db_client
           \/ save_input = << >>
           \/ (sent # << >> /\ ~sent[Len(sent)].ok)

C9_Witness ==
    /\ pc = "save_return" /\ save_result
    /\ \E l \in Range(save_input) : "raw_layout" \in DOMAIN l
    /\ \E l \in Range(save_input) : "source_id" \in DOMAIN l
    /\ Len(sent) = 1 /\ Len(sent[1].rows) = 2

(***************************************************************************)
(* C10: no row transmitted to the store, by the batch upsert or by the     *)
(* per-listing update, has a list or a mapping as a value.                 *)
(***************************************************************************)
NoListValue(r) == \A k \in DOMAIN r : r[k].kind \notin {"list", "dict"}

Validated ==
    /\ db_client
    /\ \A i \in 1..Len(ScraperNames) : ScraperNames[i] \in SCRAPERS

\* the site at site_idx has been entered and is being processed
InSite == pc \in {"classify", "upload", "save_call", "save_batch",
                  "save_return", "update"}

\* C13: a site's failure (its scrape() raising, a store write of it failing)
\* never ends the run: the sites whose scrape() was called are always the
\* configured names up to the current one, each once and in configured
\* order, and a validated run ends only after all of them were called.
C13_EverySiteRunOnceInOrder ==
    /\ Len(sites_run) <= Len(ScraperNames)
    /\ sites_run = SubSeq(ScraperNames, 1, Len(sites_run))
    /\ pc = "site" => Len(sites_run) = site_idx - 1
    /\ InSite => Len(sites_run) = site_idx
    /\ (pc = "done" /\ Validated) => sites_run = ScraperNames

\* the first of two sites failed and the second one was run all the same
C13_Witness ==
    /\ pc = "done"
    /\ Len(ScraperNames) = 2
    /\ 1 \in failed_sites
    /\ sites_run = ScraperNames

(***************************************************************************)
(* Pagination                                                              *)
(***************************************************************************)
Min(a, b) == IF a <= b THEN a ELSE b

\* the page numbers 1..n in order
Pages(n) == [i \in 1..n |-> i]

RECURSIVE ListingsOfPages(_, _)
\* the listings of the first n documents, concatenated in page order
ListingsOfPages(d, n) ==
    IF n = 0 THEN << >>
    ELSE ListingsOfPages(d, n - 1) \o d[n].listings

\* C11: on a document sequence without failures, scrape() processes the
\* pages 1..min(N, max_pages) and no other: it stops after page N when page N
\* has no next-page control even if max_pages > N, and it processes exactly
\* max_pages pages when more are available.
C11_PaginationTermination ==
    (pc \in {"pg_loop", "pg_returned"} /\ failed_at = 0) =>
        /\ fetched = Pages(Len(fetched))
        /\ Len(fetched) <= Min(Len(docs), args.max_pages)
        /\ self_results = ListingsOfPages(docs, Len(fetched))
        /\ pc = "pg_returned" =>
               Len(fetched) = Min(Len(docs), args.max_pages)

\* the browser-driven site stopped at max_pages = 2 with a third page left
C11_Witness ==
    /\ pc = "pg_returned"
    /\ failed_at = 0
    /\ site = "akiyamart"
    /\ Len(docs) = 3
    /\ args.max_pages = 2
    /\ fetched = << 1, 2 >>

\* C12: when get_html fails on page j of an HTTP site, scrape() returns
\* exactly the listings of pages 1..j-1 in page order, page j is the last one
\* requested, and run_scrapers goes on: the sites called are always the
\* configured names up to the current one, and the run ends after the last.
C12_FetchFailureKeepsEarlierPages ==
    /\ (pc = "pg_returned" /\ site \in HttpSites /\ failed_at # 0) =>
           /\ self_results = ListingsOfPages(docs, failed_at - 1)
           /\ fetched = Pages(failed_at)
    /\ sites_run = SubSeq(ScraperNames, 1, Len(sites_run))
    /\ pc = "pg_site" => Len(sites_run) = site_idx - 1
    /\ pc \in {"pg_loop", "pg_returned"} => Len(sites_run) = site_idx
    /\ (pc = "pg_done" /\ site_idx > 1) => sites_run = ScraperNames

\* the first site failed on a page after the first, its partial result was
\* written, and the second site is being scraped
C12_Witness ==
    /\ pc = "pg_loop"
    /\ site_idx = 2
    /\ ScraperNames = << "athome", "homes" >>
    /\ failed_sites = {1}
    /\ saved = << "athome" >>

(***************************************************************************)
(* Records the extractors return                                           *)
(***************************************************************************)
NonEmptyField(r, k) == k \in DOMAIN r /\ Truthy(r[k])

\* C14: every record an extractor returns has a non-empty title, price or
\* location; a container yielding none of the three is not emitted.
C14_RetainedRecordsHaveContent ==
    (pc = "returned" /\ ret.fn = "extract") =>
        \A i \in 1..Len(ret.listings) :
            \/ NonEmptyField(ret.listings[i], "title")
            \/ NonEmptyField(ret.listings[i], "price")
            \/ NonEmptyField(ret.listings[i], "location")

(***************************************************************************)
(* The normalized record                                                   *)
(***************************************************************************)
\* clean_data returned, and its input had a price that is a string
CleanedStringPrice ==
    /\ pc = "returned"
    /\ ret.fn = "clean_data"
    /\ "price" \in DOMAIN call.data
    /\ call.data["price"].kind = "str"

HasDigit(v) == \E i \in 1..Len(v.val) : v.val[i] \in Digits

\* C15: when the raw price string does not parse to a number, the normalized
\* record has price null and price_raw equal to the raw price string.
C15_UnparsedPriceKeepsRaw ==
    (CleanedStringPrice /\ ret.cleaned["price"] = None) =>
        /\ "price_raw" \in DOMAIN ret.cleaned
        /\ ret.cleaned["price_raw"] = call.data["price"]

\* C16: for a raw price string, price is null exactly when the string has no
\* digit character, and a non-negative integer otherwise.
C16_PriceNullIffNoDigit ==
    CleanedStringPrice =>
        /\ ret.cleaned["price"] = None <=> ~HasDigit(call.data["price"])
        /\ ret.cleaned["price"] # None =>
               /\ ret.cleaned["price"].kind = "int"
               /\ \A i \in 1..Len(ret.cleaned["price"].val) :
                      ret.cleaned["price"].val[i] \in Digits

\* C17: every raw key other than url and price is in the normalized record
\* with its original value, under its own name or under raw_<key>.
C17_EveryRawKeyKept ==
    (pc = "returned" /\ ret.fn = "clean_data") =>
        \A k \in (DOMAIN call.data) \ {"url", "price"} :
            \/ k \in DOMAIN ret.cleaned /\ ret.cleaned[k] = call.data[k]
            \/ /\ ("raw_" \o k) \in DOMAIN ret.cleaned
               /\ ret.cleaned["raw_" \o k] = call.data[k]

(***************************************************************************)
(* The resolved image list                                                 *)
(***************************************************************************)
\* the images of the listing process_images returned
ResolvedImages == ret.listing["images"].val

ImagesResolved == pc = "returned" /\ ret.fn = "process_images"

\* the text of u contains "loading" in any case, or ends in blank.png
IsPlaceholder(u) == u \in {UrlLoading, UrlLoadingJpg, UrlBlank}

\* u has a scheme and a host
IsAbsoluteUrl(u) == u \notin {UrlRelative, ""}

\* C18: the resolved image list holds no URL twice, the URLs being compared
\* as they are after the smallimg substitution.
C18_ResolvedImagesUnique ==
    ImagesResolved =>
        \A i, j \in 1..Len(ResolvedImages) :
            ResolvedImages[i] = ResolvedImages[j] => i = j

\* C19: no URL of the resolved image list contains "loading" or ends in
\* blank.png, whether it was an input or came out of the substitution.
C19_NoPlaceholderResolved ==
    ImagesResolved =>
        \A i \in 1..Len(ResolvedImages) : ~IsPlaceholder(ResolvedImages[i])

\* C20: every URL of the resolved image list is absolute.
C20_ResolvedImagesAbsolute ==
    ImagesResolved =>
        \A i \in 1..Len(ResolvedImages) : IsAbsoluteUrl(ResolvedImages[i])

(***************************************************************************)
(* The browser-driven loop after an exception                              *)
(***************************************************************************)
\* C21: in akiyamart's loop an exception raised while a page is processed
\* ends the pagination of that scrape(): after it no page is extracted and
\* nothing is appended to the result.
C21_ExceptionEndsPagination ==
    [][(pc = "pg_loop" /\ site \notin HttpSites /\ failed_at # 0) =>
           /\ fetched' = fetched
           /\ self_results' = self_results]_vars

NoDetailImages ==
    \/ ~call.detail_url
    \/ call.detail.raises
    \/ \A i \in 1..Len(call.detail.images) :
          call.detail.images[i] \in {"", UrlBlank}

\* C23: the listing is emitted whatever the detail page does; it keeps the
\* thumbnails of the listing card unless the detail page gives a non-empty
\* image list, and only then carries that list instead.
C23_EnrichmentKeepsListing ==
    (pc = "returned" /\ ret.fn = "enrich") =>
        /\ Len(ret.listings) = 1
        /\ NoDetailImages =>
               ret.listings[1]["images"] = List(call.thumbnails)
        /\ ~NoDetailImages =>
               /\ ret.listings[1]["images"].val # << >>
               /\ ret.listings[1]["images"].val =
                      fetch_high_res_images(call.detail)

\* the detail page could not be fetched and the thumbnails were kept
C23_Witness ==
    /\ pc = "returned"
    /\ ret.fn = "enrich"
    /\ call.detail_url
    /\ call.detail.raises
    /\ call.thumbnails = << UrlPlain, UrlPlainB >>
    /\ ret.listings[1]["images"] = List(<< UrlPlain, UrlPlainB >>)

C26_UploadedCountIsCommittedRows ==
    pc = "done" => total_uploaded = committed

\* C27: when the fetch of the identity index fails in update mode, the run
\* goes on through every site with an empty index: every classified listing
\* is NEW, nothing is skipped, queued for update or updated.
C27_FailedIndexFetchAllNew ==
    (args.update_mode /\ index_fetched = 1 /\ existing_listings = EmptyIndex)
        =>
        /\ total_skipped = 0
        /\ total_updated = 0
        /\ update_listings = << >>
        /\ update_sent = << >>
        /\ pc = "classify" =>
              new_listings = SubSeq(processed_results, 1, ci - 1)
        /\ pc = "done" =>
              /\ site_idx > Len(ScraperNames)
              /\ sites_run = ScraperNames

C27_Witness ==
    /\ args.update_mode /\ args.update_existing
    /\ index_fetched = 1 /\ existing_listings = EmptyIndex
    /\ site_idx = 2
    /\ pc = "classify" /\ ci = 3
    /\ Len(new_listings) = 2
    /\ HasSourceId(new_listings[1])
    /\ RowsOfIdentity(new_listings[1]) # {}

\* C28: in update mode each listing that is classified goes to exactly one
\* of NEW, UPDATE and SKIP: one classification step adds 1 in all to the NEW
\* list, the UPDATE list and the skipped counter, and takes nothing back.
C28_ExactlyOneOutcome ==
    [][ (args.update_mode /\ pc = "classify" /\ ci <= Len(processed_results))
          =>
          LET new == Len(new_listings') - Len(new_listings)
              upd == Len(update_listings') - Len(update_listings)
              skip == total_skipped' - total_skipped
          IN  /\ new \in {0, 1} /\ upd \in {0, 1} /\ skip \in {0, 1}
              /\ new + upd + skip = 1
              /\ ci' = ci + 1
              /\ SubSeq(new_listings', 1, Len(new_listings)) = new_listings
              /\ SubSeq(update_listings', 1, Len(update_listings)) =
                    update_listings ]_vars

C28_Witness ==
    /\ args.update_mode
    /\ site_idx = 2
    /\ total_skipped >= 1
    /\ pc = "classify" /\ ci = 3
    /\ Len(new_listings) = 1
    /\ Len(update_listings) = 1

\* C29: each pending update is sent, one after the other, whatever happened
\* to the ones before: a step of the update loop moves to the next listing
\* and stays in the loop, adding exactly 1 to the updated counter when the
\* update went through and nothing when it failed; the loop is left only
\* when no update is pending, and the run goes on to the next site.
C29_UpdateFailureGoesOn ==
    [][ pc = "update" =>
          IF UpdatesPending
          THEN /\ pc' = "update"
               /\ ci' = ci + 1
               /\ update_listings' = update_listings
               /\ update_sent' = Append(update_sent, update_listings[ci])
               /\ \/ /\ total_updated' = total_updated + 1
                     /\ failed_sites' = failed_sites
                  \/ /\ total_updated' = total_updated
                     /\ site_idx \in failed_sites'
          ELSE /\ total_updated' = total_updated
               /\ pc' = "site"
               /\ site_idx' = site_idx + 1 ]_vars

C29_Witness ==
    /\ args.update_mode /\ args.update_existing
    /\ pc = "update"
    /\ site_idx = 1 /\ Len(ScraperNames) = 2
    /\ Len(update_listings) = 2
    /\ Len(update_sent) = 2
    /\ ci = 3
    /\ total_updated = 1
    /\ site_idx \in failed_sites
    /\ sent = << >>

(***************************************************************************)
(* A request naming a site that is not registered                          *)
(***************************************************************************)
\* C30: when a requested name is not a registered site, no step of the run
\* scrapes a site, fetches a page, or writes to the store or to the disk.
C30_InvalidNameNothingDone ==
    [][ (\E i \in 1..Len(ScraperNames) : ScraperNames[i] \notin SCRAPERS)
          =>
          /\ pc' \in {"done", "pg_done"}
          /\ site_idx' = 1
          /\ sites_run' = << >>
          /\ index_fetched' = 0
          /\ fetched' = << >>
          /\ open_browsers' = 0
          /\ sent' = << >> /\ update_sent' = << >> /\ committed' = 0
          /\ saved' = << >>
          /\ output_dir' = output_dir ]_vars

====
